---- MODULE Spec2Model ----
(***************************************************************************)
(* Persona AI: the ingestion script (ingest.py), the collection inspector  *)
(* (check_chromadb.py) and the query service (app/main.py), which share    *)
(* one persistent Chroma collection, 'persona_ai_collection'.              *)
(*                                                                         *)
(* A document is modelled by the length of its text; a node (chunk) by the *)
(* span [lo, hi) it covers; an embedding by a small integer, the distance  *)
(* between two embeddings being their absolute difference.                 *)
(***************************************************************************)
EXTENDS Integers, Sequences, FiniteSets, TLC

\* ---------------------------------------------------------------- bounds
MaxRuns == 2
MaxDocs == 1
MaxDocLen == 4
ChunkSize == 2
ChunkOverlap == 1
InsertBatchSize == 2
NumReq == 2
NumQuestions == 2

\* ------------------------------------------------------ program constants
similarity_top_k == 3

COLLECTION_NAME == "persona_ai_collection"
None == "None"
UNAVAILABLE_DETAIL == "Query engine is not available. The server may still be starting up."
FAILED_DETAIL == "Failed to process the question."
persona_prompt_template == "persona_prompt_template"

\* A node that has no embedding yet.
NoVec == -1

Requests == 1..NumReq
Questions == 1..NumQuestions

\* The contents the data directory can have when it is read: up to MaxDocs
\* documents, each a text of 1..MaxDocLen characters.
DataDirs == UNION {[1..n -> 1..MaxDocLen] : n \in 0..MaxDocs}

VARIABLES
    collExists,        \* the collection exists in the persistent client
    coll,              \* its entries, in insertion order
    ipc,               \* position of the ingestion script in main()
    run,               \* number of ingestion runs started so far
    outcome,           \* how the current run ended ("none" while running)
    documents,         \* main()'s documents
    nodes,             \* nodes not yet embedded
    batch,             \* the embedded batch about to be added
    collAtStart,       \* the entries when the current run started
    hist,              \* the runs that completed: docs, entries before/after
    observed,          \* what the inspector last read from the collection
    spc,               \* position of startup_event
    settings,          \* Settings.llm / Settings.embed_model configured
    chroma_collection, \* startup_event's collection handle
    index,             \* startup_event's index
    query_engine,      \* the module-level query_engine
    req                \* the POST /ask requests

vars == <<collExists, coll, ipc, run, outcome, documents, nodes, batch,
          collAtStart, hist, observed, spc, settings, chroma_collection,
          index, query_engine, req>>

storeVars == <<collExists, coll>>
ingestVars == <<ipc, run, outcome, documents, nodes, batch, collAtStart, hist>>
serverVars == <<spc, settings, chroma_collection, index, query_engine>>

\* ------------------------------------------------------------- helpers
Min(a, b) == IF a < b THEN a ELSE b

Abs(x) == IF x < 0 THEN -x ELSE x

\* The embedding model: text -> vector.  A chunk's text is the span of its
\* document; a question's text is the question.
EmbedChunk(len, lo) == len + lo

EmbedQuestion(q) == q

\* The node parser: spans of at most ChunkSize characters, consecutive spans
\* overlapping by ChunkOverlap.
RECURSIVE SplitFrom(_, _)
SplitFrom(len, lo) ==
    IF lo + ChunkSize >= len
    THEN <<[lo |-> lo, hi |-> len]>>
    ELSE <<[lo |-> lo, hi |-> lo + ChunkSize]>>
         \o SplitFrom(len, lo + ChunkSize - ChunkOverlap)

\* The nodes of document number d (of length len) in run r.  Node ids are
\* fresh in every run, so a node is identified by (run, doc, lo).
DocNodes(r, d, len) ==
    LET spans == SplitFrom(len, 0)
    IN [i \in 1..Len(spans) |->
          [run |-> r, doc |-> d, len |-> len,
           lo |-> spans[i].lo, hi |-> spans[i].hi, vec |-> NoVec]]

RECURSIVE AllNodes(_, _, _)
AllNodes(r, docs, d) ==
    IF d > Len(docs) THEN <<>>
    ELSE DocNodes(r, d, docs[d]) \o AllNodes(r, docs, d + 1)

EmbedNodes(ns) ==
    [i \in 1..Len(ns) |-> [ns[i] EXCEPT !.vec = EmbedChunk(ns[i].len, ns[i].lo)]]

\* Entries of run r in a sequence of entries.
RunEntries(s, r) == SelectSeq(s, LAMBDA e : e.run = r)

\* Nearest-neighbour search: the k entries closest to qv, nearest first, ties
\* by insertion order; fewer when the collection holds fewer.
Nearest(s, qv) ==
    CHOOSE i \in 1..Len(s) :
        \A j \in 1..Len(s) :
            \/ Abs(s[i].vec - qv) < Abs(s[j].vec - qv)
            \/ Abs(s[i].vec - qv) = Abs(s[j].vec - qv) /\ i <= j

Without(s, i) == SubSeq(s, 1, i - 1) \o SubSeq(s, i + 1, Len(s))

RECURSIVE Search(_, _, _)
Search(s, qv, k) ==
    IF k = 0 \/ s = <<>> THEN <<>>
    ELSE LET i == Nearest(s, qv)
         IN <<s[i]>> \o Search(Without(s, i), qv, k - 1)

\* The response synthesizer: one model call on the prompt built from the
\* template, the retrieved context and the question.
Generate(template, context, q) ==
    [template |-> template, context |-> context, question |-> q]

NoAnswer == Generate(None, <<>>, 0)

NoEngine == [set |-> FALSE, similarity_top_k |-> 0, text_qa_template |-> None]

NoResponse == [status |-> 0, detail |-> None, answer |-> NoAnswer]

IdleReq == [pc |-> "idle", question |-> 0, source_nodes |-> <<>>,
            response |-> NoResponse, logged |-> None]

NotRead == [read |-> FALSE, documents |-> <<>>]

\* ---------------------------------------------------------------- Init
Init ==
    /\ collExists = FALSE
    /\ coll = <<>>
    /\ ipc = "idle"
    /\ run = 0
    /\ outcome = "none"
    /\ documents = <<>>
    /\ nodes = <<>>
    /\ batch = <<>>
    /\ collAtStart = <<>>
    /\ hist = <<>>
    /\ observed = NotRead
    /\ spc = "boot"
    /\ settings = FALSE
    /\ chroma_collection = None
    /\ index = None
    /\ query_engine = NoEngine
    /\ req = [r \in Requests |-> IdleReq]

\* ------------------------------------------------------------ ingest.py
Terminal == {"verified", "failed"}

\* A run of the script begins (the script is never run concurrently with
\* itself).
IngestStart ==
    /\ ipc \in {"idle"} \cup Terminal
    /\ run < MaxRuns
    /\ ipc' = "open"
    /\ run' = run + 1
    /\ outcome' = "none"
    /\ documents' = <<>>
    /\ nodes' = <<>>
    /\ batch' = <<>>
    /\ collAtStart' = coll
    /\ UNCHANGED <<storeVars, hist, observed, serverVars, req>>

\* Mutant: the collection is deleted and recreated before anything is loaded.
IngestOpenRecreate ==
    /\ ipc = "open"
    /\ collExists' = TRUE
    /\ coll' = <<>>
    /\ ipc' = "scan"
    /\ UNCHANGED <<run, outcome, documents, nodes, batch, collAtStart, hist,
                   observed, serverVars, req>>

\* db.get_or_create_collection("persona_ai_collection")
IngestOpen ==
    /\ ipc = "open"
    /\ collExists' = TRUE
    /\ coll' = coll
    /\ ipc' = "scan"
    /\ UNCHANGED <<run, outcome, documents, nodes, batch, collAtStart, hist,
                   observed, serverVars, req>>

IngestFail(why) ==
    /\ ipc' = "failed"
    /\ outcome' = why
    /\ documents' = <<>>
    /\ nodes' = <<>>
    /\ batch' = <<>>

\* SimpleDirectoryReader(DATA_DIR): enumerates the files; raises when the
\* directory cannot be read, which main() catches and returns.
IngestScan ==
    /\ ipc = "scan"
    /\ \/ /\ ipc' = "load"
          /\ UNCHANGED <<outcome, documents, nodes, batch>>
       \/ IngestFail("load_error")
    /\ UNCHANGED <<storeVars, run, collAtStart, hist, observed, serverVars, req>>

\* .load_data(), then `if not documents: return`.
IngestLoad ==
    /\ ipc = "load"
    /\ \/ \E d \in DataDirs :
            IF d = <<>>
            THEN IngestFail("no_documents")
            ELSE /\ documents' = d
                 /\ ipc' = "probe"
                 /\ UNCHANGED <<outcome, nodes, batch>>
       \/ IngestFail("load_error")
    /\ UNCHANGED <<storeVars, run, collAtStart, hist, observed, serverVars, req>>

\* The embedding test on documents[0].text[:200]; on an error main() returns.
IngestProbe ==
    /\ ipc = "probe"
    /\ \/ /\ ipc' = "chunk"
          /\ UNCHANGED <<outcome, documents, nodes, batch>>
       \/ IngestFail("embedding_error")
    /\ UNCHANGED <<storeVars, run, collAtStart, hist, observed, serverVars, req>>

\* Mutant: the nodes are handed to the store without being embedded.
IngestChunkSkipEmbed ==
    /\ ipc = "chunk"
    /\ nodes' = <<>>
    /\ batch' = AllNodes(run, documents, 1)
    /\ ipc' = "persist"
    /\ UNCHANGED <<storeVars, run, outcome, documents, collAtStart, hist,
                   observed, serverVars, req>>

\* VectorStoreIndex.from_documents, first part: the documents are split into
\* nodes.
IngestChunk ==
    /\ ipc = "chunk"
    /\ nodes' = AllNodes(run, documents, 1)
    /\ ipc' = "embed"
    /\ UNCHANGED <<storeVars, run, outcome, documents, batch, collAtStart, hist,
                   observed, serverVars, req>>

\* from_documents: the next insert batch of nodes is embedded.
IngestEmbed ==
    /\ ipc = "embed"
    /\ LET n == Min(InsertBatchSize, Len(nodes))
       IN /\ batch' = EmbedNodes(SubSeq(nodes, 1, n))
          /\ nodes' = SubSeq(nodes, n + 1, Len(nodes))
    /\ ipc' = "persist"
    /\ UNCHANGED <<storeVars, run, outcome, documents, collAtStart, hist,
                   observed, serverVars, req>>

\* from_documents: the embedded batch is added to the collection; after the
\* last batch main() prints its report and returns.
IngestPersist ==
    /\ ipc = "persist"
    /\ coll' = coll \o batch
    /\ batch' = <<>>
    /\ IF nodes = <<>>
       THEN /\ ipc' = "verified"
            /\ outcome' = "complete"
            /\ hist' = Append(hist, [run |-> run, documents |-> documents,
                                     before |-> Len(collAtStart),
                                     after |-> Len(coll')])
       ELSE /\ ipc' = "embed"
            /\ UNCHANGED <<outcome, hist>>
    /\ UNCHANGED <<collExists, run, documents, nodes, collAtStart, observed,
                   serverVars, req>>

\* An exception inside from_documents is not caught: the script dies with
\* whatever it has added so far.
IngestCrash ==
    /\ ipc \in {"chunk", "embed", "persist"}
    /\ IngestFail("crash")
    /\ UNCHANGED <<storeVars, run, collAtStart, hist, observed, serverVars, req>>

IngestStep ==
    \/ IngestOpen
    \/ IngestScan
    \/ IngestLoad
    \/ IngestProbe
    \/ IngestChunk
    \/ IngestEmbed
    \/ IngestPersist
    \/ IngestCrash

\* ------------------------------------------------------ check_chromadb.py
\* db.get_collection(COLLECTION_NAME) raises when the collection is missing;
\* otherwise collection.get(include=["documents"]) reads every entry.
Inspect ==
    /\ collExists
    /\ observed' = [read |-> TRUE, documents |-> coll]
    /\ UNCHANGED <<storeVars, ingestVars, serverVars, req>>

\* ------------------------------------------------- app/main.py: startup
\* An exception in startup_event leaves every later step undone.
StartupFail ==
    /\ spc' = "failed"
    /\ UNCHANGED <<settings, chroma_collection, index, query_engine>>

\* Settings.llm = GoogleGenAI(); Settings.embed_model = GoogleGenAIEmbedding()
StartupConfigure ==
    /\ spc = "boot"
    /\ \/ /\ settings' = TRUE
          /\ spc' = "configured"
          /\ UNCHANGED <<chroma_collection, index, query_engine>>
       \/ StartupFail
    /\ UNCHANGED <<storeVars, ingestVars, observed, req>>

\* Mutant: a missing collection is tolerated and the engine built anyway.
StartupOpenLenient ==
    /\ spc = "configured"
    /\ IF collExists
       THEN /\ chroma_collection' = COLLECTION_NAME
            /\ spc' = "opened"
            /\ UNCHANGED <<settings, index, query_engine>>
       ELSE /\ query_engine' = [set |-> TRUE,
                                similarity_top_k |-> similarity_top_k,
                                text_qa_template |-> persona_prompt_template]
            /\ spc' = "ready"
            /\ UNCHANGED <<settings, chroma_collection, index>>
    /\ UNCHANGED <<storeVars, ingestVars, observed, req>>

\* db.get_collection("persona_ai_collection") raises when the collection does
\* not exist.
StartupOpen ==
    /\ spc = "configured"
    /\ IF collExists
       THEN /\ chroma_collection' = COLLECTION_NAME
            /\ spc' = "opened"
            /\ UNCHANGED <<settings, index, query_engine>>
       ELSE StartupFail
    /\ UNCHANGED <<storeVars, ingestVars, observed, req>>

\* VectorStoreIndex.from_vector_store(vector_store=vector_store)
StartupLoadIndex ==
    /\ spc = "opened"
    /\ \/ /\ index' = chroma_collection
          /\ spc' = "loaded"
          /\ UNCHANGED <<settings, chroma_collection, query_engine>>
       \/ StartupFail
    /\ UNCHANGED <<storeVars, ingestVars, observed, req>>

\* query_engine = index.as_query_engine(text_qa_template=qa_template,
\*                                      similarity_top_k=3)
StartupCreateEngine ==
    /\ spc = "loaded"
    /\ query_engine' = [set |-> TRUE, similarity_top_k |-> similarity_top_k,
                        text_qa_template |-> persona_prompt_template]
    /\ spc' = "ready"
    /\ UNCHANGED <<settings, chroma_collection, index>>
    /\ UNCHANGED <<storeVars, ingestVars, observed, req>>

StartupStep ==
    \/ StartupConfigure
    \/ StartupOpen
    \/ StartupLoadIndex
    \/ StartupCreateEngine

\* ------------------------------------------------ app/main.py: POST /ask
Response(status, detail, answer) ==
    [status |-> status, detail |-> detail, answer |-> answer]

\* Mutant: the exception's text is echoed in the response.
QueryFailedLeaky(r, cause) ==
    req' = [req EXCEPT ![r].pc = "done",
                       ![r].logged = cause,
                       ![r].response = Response(500, cause, NoAnswer)]

\* The except clause: the cause is printed, the caller gets the generic 500.
QueryFailed(r, cause) ==
    req' = [req EXCEPT ![r].pc = "done",
                       ![r].logged = cause,
                       ![r].response = Response(500, FAILED_DETAIL, NoAnswer)]

\* Mutant: the handler does not test query_engine.
AskReceiveUnguarded(r, q) ==
    /\ req[r].pc = "idle"
    /\ req' = [req EXCEPT ![r].pc = "querying", ![r].question = q]
    /\ UNCHANGED <<storeVars, ingestVars, observed, serverVars>>

\* The request arrives: `if not query_engine: raise HTTPException(503, ...)`.
AskReceive(r, q) ==
    /\ req[r].pc = "idle"
    /\ IF ~query_engine.set
       THEN req' = [req EXCEPT ![r].pc = "done",
                               ![r].question = q,
                               ![r].response =
                                   Response(503, UNAVAILABLE_DETAIL, NoAnswer)]
       ELSE req' = [req EXCEPT ![r].pc = "querying", ![r].question = q]
    /\ UNCHANGED <<storeVars, ingestVars, observed, serverVars>>

\* Mutant: a short result is padded to similarity_top_k entries by repeating
\* its last entry.
AskRetrievePadded(r) ==
    /\ req[r].pc = "querying"
    /\ \/ LET found == Search(coll, EmbedQuestion(req[r].question),
                              query_engine.similarity_top_k)
          IN req' = [req EXCEPT
                       ![r].pc = "retrieved",
                       ![r].source_nodes =
                           IF found = <<>> THEN found
                           ELSE [i \in 1..query_engine.similarity_top_k |->
                                   found[Min(i, Len(found))]]]
       \/ \E cause \in {"embedding", "search"} : QueryFailed(r, cause)
    /\ UNCHANGED <<storeVars, ingestVars, observed, serverVars>>

\* query_engine.query, first part: the question is embedded and the
\* collection searched for the similarity_top_k nearest entries.
AskRetrieve(r) ==
    /\ req[r].pc = "querying"
    /\ \/ req' = [req EXCEPT
                    ![r].pc = "retrieved",
                    ![r].source_nodes =
                        Search(coll, EmbedQuestion(req[r].question),
                               query_engine.similarity_top_k)]
       \/ \E cause \in {"embedding", "search"} : QueryFailed(r, cause)
    /\ UNCHANGED <<storeVars, ingestVars, observed, serverVars>>

\* Mutant: the question is kept in a variable shared by the requests, so a
\* request is answered with the question of the request that arrived last.
AskGenerateShared(r) ==
    /\ req[r].pc = "retrieved"
    /\ \/ LET others == {o \in Requests : o # r /\ req[o].pc # "idle"}
              q == IF others = {} THEN req[r].question
                   ELSE req[CHOOSE o \in others : TRUE].question
          IN req' = [req EXCEPT
                       ![r].pc = "done",
                       ![r].response =
                           Response(200, None,
                                    Generate(query_engine.text_qa_template,
                                             req[r].source_nodes, q))]
       \/ QueryFailed(r, "generation")
    /\ UNCHANGED <<storeVars, ingestVars, observed, serverVars>>

\* query_engine.query, second part: the model is called on the prompt; the
\* handler returns {"answer": response.response}.
AskGenerate(r) ==
    /\ req[r].pc = "retrieved"
    /\ \/ req' = [req EXCEPT
                    ![r].pc = "done",
                    ![r].response =
                        Response(200, None,
                                 Generate(query_engine.text_qa_template,
                                          req[r].source_nodes,
                                          req[r].question))]
       \/ QueryFailed(r, "generation")
    /\ UNCHANGED <<storeVars, ingestVars, observed, serverVars>>

AskStep(r) ==
    \/ \E q \in Questions : AskReceive(r, q)
    \/ AskRetrieve(r)
    \/ AskGenerate(r)

\* -------------------------------------------------------- specification
Next ==
    \/ IngestStart
    \/ IngestStep
    \/ Inspect
    \/ StartupStep
    \/ \E r \in Requests : AskStep(r)

Spec == Init /\ [][Next]_vars

\* The inspector writes only `observed`, which nothing else reads, and the
\* service never writes what the script or the inspector reads, so the two
\* halves are also checked apart: the script with the inspector as the
\* concurrent reader, and the service with the script as the concurrent
\* writer.
IngestNext ==
    \/ IngestStart
    \/ IngestStep
    \/ Inspect

IngestSpec == Init /\ [][IngestNext]_vars

\* The script alone.  main() is straight-line code that runs to completion:
\* a run that has begun keeps taking steps.
RunNext ==
    \/ IngestStart
    \/ IngestStep

FairRunSpec == Init /\ [][RunNext]_vars /\ WF_vars(IngestStep)

ServiceNext ==
    \/ IngestStart
    \/ IngestStep
    \/ StartupStep
    \/ \E r \in Requests : AskStep(r)

ServiceSpec == Init /\ [][ServiceNext]_vars

\* ------------------------------------------------------ claims: ingestion
\* What a run's documents produce: one entry per node.
RunProduct == EmbedNodes(AllNodes(run, documents, 1))

\* C1 (as claimed): after a run that completes, the collection holds exactly
\* the entries produced from that run's documents and none written earlier.
C1_ReplacesPriorIndex ==
    ipc = "verified" => coll = RunProduct

\* C4 (as claimed): two runs in a row on the same documents leave the
\* collection with the same number of entries after the second as after the
\* first.
C4_IdempotentCount ==
    \A i \in 1..(Len(hist) - 1) :
        (/\ hist[i + 1].run = hist[i].run + 1
         /\ hist[i + 1].documents = hist[i].documents)
        => hist[i + 1].after = hist[i].after

\* C5: a run that finds no documents aborts with the collection's entries
\* exactly as they were when the run began, and the collection still there.
C5_NoDocumentsUntouched ==
    outcome = "no_documents" => (coll = collAtStart /\ collExists)

\* C5 witness: a run found no documents while the collection held entries.
C5_Witness ==
    outcome = "no_documents" /\ coll # <<>>

\* C6 (as claimed): a read of the collection sees none or all of the entries
\* the current run persists.
C6_AtomicRun ==
    (ipc \in Terminal /\ observed.read) =>
        LET seen == Len(RunEntries(observed.documents, run))
        IN seen = 0 \/ seen = Len(RunEntries(coll, run))

\* The pipeline stage the script is in.  The embedding self-test that main()
\* runs on a sample of documents[0] belongs to LOADING: it embeds no chunk.
Stage(pc) ==
    CASE pc = "idle" -> "IDLE"
      [] pc \in {"open", "scan"} -> "SCANNING"
      [] pc \in {"load", "probe"} -> "LOADING"
      [] pc = "chunk" -> "CHUNKING"
      [] pc = "embed" -> "EMBEDDING"
      [] pc = "persist" -> "PERSISTING"
      [] pc = "verified" -> "VERIFIED"
      [] pc = "failed" -> "FAILED"

StageOrder ==
    <<"SCANNING", "LOADING", "CHUNKING", "EMBEDDING", "PERSISTING", "VERIFIED">>

StageNo(st) == CHOOSE i \in 1..Len(StageOrder) : StageOrder[i] = st

Running == ipc \notin ({"idle"} \cup Terminal)

\* A step of a run keeps the stage or moves to the next one or to FAILED.
StrictStageStep ==
    (Running /\ run' = run) =>
        \/ Stage(ipc') = Stage(ipc)
        \/ Stage(ipc') = "FAILED"
        \/ /\ Stage(ipc') \in {StageOrder[i] : i \in 1..Len(StageOrder)}
           /\ StageNo(Stage(ipc')) = StageNo(Stage(ipc)) + 1

Unavailable == Response(503, UNAVAILABLE_DETAIL, NoAnswer)

GenericFailure == Response(500, FAILED_DETAIL, NoAnswer)

\* C2: a request that arrives while query_engine is unset is answered at
\* once with the 503 response; nothing is retrieved, generated or logged
\* for it.
C2_UnavailableWhenUnset ==
    [][\A r \in Requests :
         (req[r].pc = "idle" /\ req'[r].pc # "idle" /\ ~query_engine.set) =>
             /\ req'[r].pc = "done"
             /\ req'[r].response = Unavailable
             /\ req'[r].source_nodes = <<>>
             /\ req'[r].logged = None]_vars

\* C2 witness: a request was refused with 503 because startup had failed.
C2_Witness ==
    \E r \in Requests :
        req[r].response.status = 503 /\ spc = "failed" /\ ~query_engine.set

\* C3: whatever the cause of a failure while the question is processed, the
\* caller gets the one generic 500 response, so any two failed requests get
\* identical responses; the cause is only logged.
C3_GenericFailure ==
    \A r1, r2 \in Requests :
        (req[r1].logged # None /\ req[r2].logged # None) =>
            /\ req[r1].response = GenericFailure
            /\ req[r1].response = req[r2].response

\* C3 witness: two requests failed for different causes.
C3_Witness ==
    \E r1, r2 \in Requests :
        /\ req[r1].logged = "embedding"
        /\ req[r2].logged = "generation"

\* The entries of a sequence, as a set.
Range(s) == {s[i] : i \in 1..Len(s)}

C9_NoSharedState ==
    [][\A r \in Requests :
         req'[r] # req[r] =>
             /\ UNCHANGED <<collExists, coll, query_engine, settings, index>>
             /\ \A o \in Requests \ {r} : req'[o] = req[o]
             /\ (req[r].pc = "querying" /\ req'[r].pc = "retrieved") =>
                    req'[r].source_nodes =
                        Search(coll, EmbedQuestion(req[r].question),
                               similarity_top_k)
             /\ req'[r].response.status = 200 =>
                    req'[r].response.answer =
                        Generate(persona_prompt_template,
                                 req[r].source_nodes, req[r].question)]_vars

\* C9 witness: a request was answered while another one, with a different
\* question, was in flight.
C9_Witness ==
    \E r1, r2 \in Requests :
        /\ req[r1].response.status = 200
        /\ req[r2].pc \in {"querying", "retrieved"}
        /\ req[r1].question # req[r2].question

\* C10: query_engine is assigned once, by the last step of startup_event and
\* by nothing else, so a set query_engine implies configured models, an
\* opened collection and a loaded index, and a failed startup leaves it
\* unset.
C10_EngineSetLast ==
    /\ [](query_engine.set =>
            /\ spc = "ready"
            /\ settings
            /\ chroma_collection = COLLECTION_NAME
            /\ index = COLLECTION_NAME)
    /\ [][query_engine' # query_engine =>
            (~query_engine.set /\ spc = "loaded" /\ spc' = "ready")]_vars

\* C10 witness: the engine is set and a request was answered through it.
C10_Witness ==
    /\ query_engine.set
    /\ chroma_collection = COLLECTION_NAME
    /\ \E r \in Requests : req[r].response.status = 200

====
